---- MODULE Spec2Model ----
(***************************************************************************)
(* Model of the delegation routing engine (agents/base_agents.py), the     *)
(* multi-source search aggregator (agents/search_agent.py) and the HTTP    *)
(* endpoints in front of them (backend/api.py).                            *)
(*                                                                         *)
(* Text is a sequence of one-character strings, so that find/rfind,        *)
(* slicing, strip, lower, startswith, split and JSON decoding are computed *)
(* the way the Python code computes them.  Fixed output literals of the    *)
(* program (labels, markers, prompt template pieces) are single elements   *)
(* of such a sequence: they are only ever concatenated and compared.       *)
(***************************************************************************)
EXTENDS Integers, Sequences, FiniteSets, TLC

(***************************************************************************)
(* Python str primitives                                                   *)
(***************************************************************************)

\* the whitespace characters str.strip() removes and json skips
WS == {" ", "\n", "\t", "\r"}

LowerMap ==
    [c \in {"A","B","C","D","E","F","G","H","I","J","K","L","M",
            "N","O","P","Q","R","S","T","U","V","W","X","Y","Z"} |->
       CASE c = "A" -> "a" [] c = "B" -> "b" [] c = "C" -> "c" [] c = "D" -> "d"
         [] c = "E" -> "e" [] c = "F" -> "f" [] c = "G" -> "g" [] c = "H" -> "h"
         [] c = "I" -> "i" [] c = "J" -> "j" [] c = "K" -> "k" [] c = "L" -> "l"
         [] c = "M" -> "m" [] c = "N" -> "n" [] c = "O" -> "o" [] c = "P" -> "p"
         [] c = "Q" -> "q" [] c = "R" -> "r" [] c = "S" -> "s" [] c = "T" -> "t"
         [] c = "U" -> "u" [] c = "V" -> "v" [] c = "W" -> "w" [] c = "X" -> "x"
         [] c = "Y" -> "y" [] c = "Z" -> "z"]

\* str.lower()
Lower(s) == [i \in 1..Len(s) |-> IF s[i] \in DOMAIN LowerMap THEN LowerMap[s[i]] ELSE s[i]]

\* s[a:b] for 0 <= a <= b <= len(s)
Slice(s, a, b) == SubSeq(s, a + 1, b)

\* str.lstrip() / str.rstrip() / str.strip()
LStrip(s) ==
    IF \A i \in 1..Len(s) : s[i] \in WS THEN <<>>
    ELSE LET f == CHOOSE i \in 1..Len(s) :
                     s[i] \notin WS /\ \A j \in 1..(i - 1) : s[j] \in WS
         IN  SubSeq(s, f, Len(s))

RStrip(s) ==
    IF \A i \in 1..Len(s) : s[i] \in WS THEN <<>>
    ELSE LET l == CHOOSE i \in 1..Len(s) :
                     s[i] \notin WS /\ \A j \in (i + 1)..Len(s) : s[j] \in WS
         IN  SubSeq(s, 1, l)

Strip(s) == RStrip(LStrip(s))

\* str.startswith(p) / str.endswith(p)
StartsWith(s, p) == Len(p) <= Len(s) /\ SubSeq(s, 1, Len(p)) = p

EndsWith(s, p) == Len(p) <= Len(s) /\ SubSeq(s, Len(s) - Len(p) + 1, Len(s)) = p

\* str.find(c) and str.rfind(c) for a one-character c: 0-based index, -1 if absent
Find(s, c) ==
    IF \E i \in 1..Len(s) : s[i] = c
    THEN (CHOOSE i \in 1..Len(s) : s[i] = c /\ \A j \in 1..(i - 1) : s[j] # c) - 1
    ELSE -1

RFind(s, c) ==
    IF \E i \in 1..Len(s) : s[i] = c
    THEN (CHOOSE i \in 1..Len(s) : s[i] = c /\ \A j \in (i + 1)..Len(s) : s[j] # c) - 1
    ELSE -1

\* `sub in s`
Contains(s, sub) ==
    \/ sub = <<>>
    \/ \E i \in 0..(Len(s) - Len(sub)) :
           s[i + 1] = sub[1] /\ SubSeq(s, i + 1, i + Len(sub)) = sub

\* s.split(c, 1)[1] for an s that contains c
AfterFirst(s, c) == SubSeq(s, Find(s, c) + 2, Len(s))

(***************************************************************************)
(* json.loads                                                              *)
(*                                                                         *)
(* A decoded value is a record [t, s, kv]: t the Python type of the value, *)
(* s the text of a str or of a number, kv the members of a dict (records   *)
(* [k, v], in document order) or the elements of a list.                   *)
(***************************************************************************)

JStr(s)   == [t |-> "str",  s |-> s,    kv |-> <<>>]
JNum(s)   == [t |-> "num",  s |-> s,    kv |-> <<>>]
JBool(s)  == [t |-> "bool", s |-> s,    kv |-> <<>>]
JNone     == [t |-> "None", s |-> <<>>, kv |-> <<>>]
JList(es) == [t |-> "list", s |-> <<>>, kv |-> es]
JDict(ms) == [t |-> "dict", s |-> <<>>, kv |-> ms]

Digits == {"0","1","2","3","4","5","6","7","8","9"}

\* the simple escapes of a JSON string (\uXXXX is not modelled: no input uses it)
Unescape == [c \in {"\"", "\\", "/", "n", "t", "r"} |->
               CASE c = "n" -> "\n" [] c = "t" -> "\t" [] c = "r" -> "\r" [] OTHER -> c]

JFail == [ok |-> FALSE, v |-> JNone, p |-> 0]

JOk(v, p) == [ok |-> TRUE, v |-> v, p |-> p]

\* index of the first non-whitespace character at or after i (Len(s)+1 if none)
RECURSIVE SkipWs(_, _)
SkipWs(s, i) == IF i <= Len(s) /\ s[i] \in WS THEN SkipWs(s, i + 1) ELSE i

\* the body of a string literal from index i (just after the opening quote)
RECURSIVE ScanString(_, _, _)
ScanString(s, i, acc) ==
    IF i > Len(s) THEN JFail
    ELSE IF s[i] = "\"" THEN JOk(JStr(acc), i + 1)
    ELSE IF s[i] = "\\"
         THEN IF i + 1 <= Len(s) /\ s[i + 1] \in DOMAIN Unescape
              THEN ScanString(s, i + 2, Append(acc, Unescape[s[i + 1]]))
              ELSE JFail
    ELSE IF s[i] \in {"\n", "\t", "\r"} THEN JFail     \* strict: no control characters
    ELSE ScanString(s, i + 1, Append(acc, s[i]))

\* index just after the run of digits starting at i
RECURSIVE SkipDigits(_, _)
SkipDigits(s, i) == IF i <= Len(s) /\ s[i] \in Digits THEN SkipDigits(s, i + 1) ELSE i

\* -?(0|[1-9]\d*)(\.\d+)?
ScanNumber(s, i) ==
    LET a == IF i <= Len(s) /\ s[i] = "-" THEN i + 1 ELSE i
        b == IF a <= Len(s) /\ s[a] = "0" THEN a + 1 ELSE SkipDigits(s, a)
        c == IF b + 1 <= Len(s) /\ s[b] = "." /\ s[b + 1] \in Digits
             THEN SkipDigits(s, b + 1) ELSE b
    IN  IF b = a THEN JFail ELSE JOk(JNum(SubSeq(s, i, c - 1)), c)

ScanLiteral(s, i) ==
    IF      StartsWith(SubSeq(s, i, Len(s)), <<"n","u","l","l">>)     THEN JOk(JNone, i + 4)
    ELSE IF StartsWith(SubSeq(s, i, Len(s)), <<"t","r","u","e">>)     THEN JOk(JBool(<<"t">>), i + 4)
    ELSE IF StartsWith(SubSeq(s, i, Len(s)), <<"f","a","l","s","e">>) THEN JOk(JBool(<<"f">>), i + 5)
    ELSE JFail

RECURSIVE ScanValue(_, _), ScanMembers(_, _, _), ScanElements(_, _, _)

\* one JSON value starting exactly at index i
ScanValue(s, i) ==
    IF i > Len(s) THEN JFail
    ELSE IF s[i] = "\"" THEN ScanString(s, i + 1, <<>>)
    ELSE IF s[i] = "{"
         THEN LET j == SkipWs(s, i + 1)
              IN  IF j <= Len(s) /\ s[j] = "}" THEN JOk(JDict(<<>>), j + 1)
                  ELSE ScanMembers(s, j, <<>>)
    ELSE IF s[i] = "["
         THEN LET j == SkipWs(s, i + 1)
              IN  IF j <= Len(s) /\ s[j] = "]" THEN JOk(JList(<<>>), j + 1)
                  ELSE ScanElements(s, j, <<>>)
    ELSE IF s[i] \in Digits \cup {"-"} THEN ScanNumber(s, i)
    ELSE ScanLiteral(s, i)

\* "key" : value ( , "key" : value )* }   with i at the first key
ScanMembers(s, i, acc) ==
    IF i > Len(s) \/ s[i] # "\"" THEN JFail
    ELSE LET k == ScanString(s, i + 1, <<>>)
         IN  IF ~k.ok THEN JFail
             ELSE LET c == SkipWs(s, k.p)
                  IN  IF c > Len(s) \/ s[c] # ":" THEN JFail
                      ELSE LET v == ScanValue(s, SkipWs(s, c + 1))
                           IN  IF ~v.ok THEN JFail
                               ELSE LET e   == SkipWs(s, v.p)
                                        ms  == Append(acc, [k |-> k.v.s, v |-> v.v])
                                    IN  IF e > Len(s) THEN JFail
                                        ELSE IF s[e] = "}" THEN JOk(JDict(ms), e + 1)
                                        ELSE IF s[e] = ","
                                             THEN ScanMembers(s, SkipWs(s, e + 1), ms)
                                        ELSE JFail

\* value ( , value )* ]   with i at the first value
ScanElements(s, i, acc) ==
    LET v == ScanValue(s, i)
    IN  IF ~v.ok THEN JFail
        ELSE LET e  == SkipWs(s, v.p)
                 es == Append(acc, v.v)
             IN  IF e > Len(s) THEN JFail
                 ELSE IF s[e] = "]" THEN JOk(JList(es), e + 1)
                 ELSE IF s[e] = "," THEN ScanElements(s, SkipWs(s, e + 1), es)
                 ELSE JFail

\* json.loads(s): [ok |-> FALSE] stands for json.JSONDecodeError
json_loads(s) ==
    LET v == ScanValue(s, SkipWs(s, 1))
    IN  IF v.ok /\ SkipWs(s, v.p) = Len(s) + 1 THEN v ELSE JFail

\* dict.get(key, default): the last member with that key wins
DictGet(d, key, default) ==
    IF \E i \in 1..Len(d.kv) : d.kv[i].k = key
    THEN d.kv[CHOOSE i \in 1..Len(d.kv) :
                 d.kv[i].k = key /\ \A j \in (i + 1)..Len(d.kv) : d.kv[j].k # key].v
    ELSE default

(***************************************************************************)
(* Capability registry (base_agents.py)                                    *)
(***************************************************************************)

planner == <<"p","l","a","n","n","e","r">>
task    == <<"t","a","s","k">>
tool    == <<"t","o","o","l">>
api     == <<"a","p","i">>
search  == <<"s","e","a","r","c","h">>

\* the keys of the AGENTS dict
AGENTS == {planner, task, tool, api, search}

(***************************************************************************)
(* JARVISAssistant.process_request: the synchronous part after the planner *)
(* stream has ended, up to the return or to the awaited handler call.      *)
(***************************************************************************)

\* one iteration of `async for msg in ...run_stream(...)`: a message is
\* [has, content]; has = FALSE stands for a message without a content attribute
Accumulate(buf, msg) == IF msg.has /\ msg.content # <<>> THEN buf \o msg.content ELSE buf

\* lines 116-120; json_str = None is the empty text (both are falsy at line 122)
ExtractJson(buf) ==
    LET start == Find(buf, "{")
        end   == RFind(buf, "}")
    IN  IF start # -1 /\ end # -1 /\ end > start THEN Slice(buf, start, end + 1) ELSE <<>>

\* faulty variant of Return, for testing C1: the buffer is trimmed before it is returned
ReturnStripped(text) ==
    [kind |-> "return", text |-> Strip(text), exc |-> "", h |-> "", agent |-> <<>>]

\* what process_request does next
Return(text)         == [kind |-> "return", text |-> text, exc |-> "",  h |-> "", agent |-> <<>>]
Raise(e)             == [kind |-> "raise",  text |-> <<>>, exc |-> e,   h |-> "", agent |-> <<>>]
Call(h, agent, arg)  == [kind |-> "call",   text |-> arg,  exc |-> "",  h |-> h,  agent |-> agent]

\* faulty variant of RouteAgent, for testing C9: the argument is cut from the
\* lower-cased task
RouteAgentLow(agent_key, t) ==
    LET low == Lower(t)
    IN  IF agent_key = api /\ StartsWith(low, <<"w","e","a","t","h","e","r",":">>)
        THEN Call("get_weather", agent_key, Strip(AfterFirst(low, ":")))
        ELSE IF agent_key = api /\ StartsWith(low, <<"n","e","w","s",":">>)
        THEN Call("get_news", agent_key, Strip(AfterFirst(low, ":")))
        ELSE IF agent_key = api /\ StartsWith(low, <<"s","t","o","c","k",":">>)
        THEN Call("get_stock", agent_key, Strip(AfterFirst(low, ":")))
        ELSE IF agent_key = search
        THEN Call("search", agent_key, t)
        ELSE Call("_run_agent_task", agent_key, t)

\* faulty variant of RouteAgent, for testing C10: an api task without a known
\* prefix is rejected
RouteAgentStrict(agent_key, t) ==
    LET low == Lower(t)
    IN  IF agent_key = api /\ StartsWith(low, <<"w","e","a","t","h","e","r",":">>)
        THEN Call("get_weather", agent_key, Strip(AfterFirst(t, ":")))
        ELSE IF agent_key = api /\ StartsWith(low, <<"n","e","w","s",":">>)
        THEN Call("get_news", agent_key, Strip(AfterFirst(t, ":")))
        ELSE IF agent_key = api /\ StartsWith(low, <<"s","t","o","c","k",":">>)
        THEN Call("get_stock", agent_key, Strip(AfterFirst(t, ":")))
        ELSE IF agent_key = api
        THEN Raise("ValueError")
        ELSE IF agent_key = search
        THEN Call("search", agent_key, t)
        ELSE Call("_run_agent_task", agent_key, t)

\* lines 131-149: the handler of a registered, non-planner key
RouteAgent(agent_key, t) ==
    LET low == Lower(t)
    IN  IF agent_key = api /\ StartsWith(low, <<"w","e","a","t","h","e","r",":">>)
        THEN Call("get_weather", agent_key, Strip(AfterFirst(t, ":")))
        ELSE IF agent_key = api /\ StartsWith(low, <<"n","e","w","s",":">>)
        THEN Call("get_news", agent_key, Strip(AfterFirst(t, ":")))
        ELSE IF agent_key = api /\ StartsWith(low, <<"s","t","o","c","k",":">>)
        THEN Call("get_stock", agent_key, Strip(AfterFirst(t, ":")))
        ELSE IF agent_key = search
        THEN Call("search", agent_key, t)
        ELSE Call("_run_agent_task", agent_key, t)

\* faulty variant of Routable, for testing C3: the registry is not consulted
RoutableUnregistered(agent_key) == agent_key.t = "str" /\ agent_key.s # planner

\* faulty variant of Routable, for testing C4: the planner's own key is accepted
RoutableSelf(agent_key) == agent_key.t = "str" /\ agent_key.s \in AGENTS

\* `agent_key in self.agents and agent_key != "planner"` for a hashable agent_key
Routable(agent_key) == agent_key.t = "str" /\ agent_key.s \in AGENTS /\ agent_key.s # planner

\* lines 122-156
Dispatch(buf) ==
    LET json_str == ExtractJson(buf)
    IN  IF json_str = <<>> THEN Return(buf)
        ELSE LET plan == json_loads(json_str)
             IN  IF ~plan.ok THEN Return(buf)                         \* except json.JSONDecodeError
                 ELSE IF plan.v.t # "dict" THEN Raise("AttributeError")   \* plan.get
                 ELSE LET agent_key == DictGet(plan.v, <<"a","g","e","n","t">>, JNone)
                          t         == DictGet(plan.v, <<"t","a","s","k">>, JStr(<<>>))
                      IN  IF t.t # "str" THEN Raise("AttributeError")     \* .strip()
                          ELSE IF agent_key.t \in {"list", "dict"}
                               THEN Raise("TypeError")                    \* unhashable
                          ELSE IF Routable(agent_key)
                               THEN RouteAgent(agent_key.s, Strip(t.s))
                          ELSE Return(buf)

\* _run_agent_task, line 165: `out or "No response"`
RunAgentResult(out) == IF out = <<>> THEN <<"N","o"," ","r","e","s","p","o","n","s","e">> ELSE out

(***************************************************************************)
(* SearchAgent (search_agent.py): pure parts                               *)
(***************************************************************************)

question_words ==
    << <<"w","h","a","t"," ","i","s">>,
       <<"w","h","o"," ","i","s">>,
       <<"t","e","l","l"," ","m","e"," ","a","b","o","u","t">>,
       <<"i","n","f","o","r","m","a","t","i","o","n"," ","a","b","o","u","t">> >>

\* faulty variant of StripQuestionWords, for testing C11: the loop ends at the
\* first phrase it removes
RECURSIVE StripQuestionWordsFirst(_, _)
StripQuestionWordsFirst(cleaned, qws) ==
    IF qws = <<>> THEN cleaned
    ELSE IF StartsWith(cleaned, Head(qws))
         THEN Strip(SubSeq(cleaned, Len(Head(qws)) + 1, Len(cleaned)))
         ELSE StripQuestionWordsFirst(cleaned, Tail(qws))

\* lines 281-283: the loop over question_words
RECURSIVE StripQuestionWords(_, _)
StripQuestionWords(cleaned, qws) ==
    IF qws = <<>> THEN cleaned
    ELSE StripQuestionWords(
             IF StartsWith(cleaned, Head(qws))
             THEN Strip(SubSeq(cleaned, Len(Head(qws)) + 1, Len(cleaned)))
             ELSE cleaned,
             Tail(qws))

\* faulty variant of simplify_query, for testing C21: what is left after the
\* question mark is not trimmed
simplify_query_untrimmed(query) ==
    LET cleaned == StripQuestionWords(Lower(Strip(query)), question_words)
    IN  IF EndsWith(cleaned, <<"?">>)
        THEN SubSeq(cleaned, 1, Len(cleaned) - 1)
        ELSE cleaned

\* _simplify_query
simplify_query(query) ==
    LET cleaned == StripQuestionWords(Lower(Strip(query)), question_words)
    IN  IF EndsWith(cleaned, <<"?">>)
        THEN Strip(SubSeq(cleaned, 1, Len(cleaned) - 1))
        ELSE cleaned

\* str.replace(old, "")
RECURSIVE Remove(_, _)
Remove(s, old) ==
    IF Len(s) < Len(old) THEN s
    ELSE IF SubSeq(s, 1, Len(old)) = old THEN Remove(SubSeq(s, Len(old) + 1, Len(s)), old)
    ELSE <<s[1]>> \o Remove(Tail(s), old)

\* line 118
clean_query(query) == Strip(Remove(query, <<" ","b","i","o","g","r","a","p","h","y">>))

\* the disambiguation marker, lines 151 and 195
MayReferTo == <<"m","a","y"," ","r","e","f","e","r"," ","t","o",":">>

\* lines 151 and 177: an extract must be longer than this
MinExtractLen == 100

\* lines 94-107: the text _search_duckduckgo takes from a decoded 200 response
RECURSIVE RelatedText(_)
RelatedText(topics) ==
    IF topics = <<>> THEN <<>>
    ELSE (IF Head(topics).is_dict /\ Head(topics).Text # <<>>
          THEN Head(topics).Text \o <<" ">> ELSE <<>>) \o RelatedText(Tail(topics))

DdgContent(data) ==
    LET main == IF Strip(data.AbstractText) # <<>> THEN Strip(data.AbstractText)
                ELSE IF Strip(data.Definition) # <<>> THEN Strip(data.Definition)
                ELSE Strip(data.Answer)
        content == IF main = <<>> /\ data.RelatedTopics # <<>>
                   THEN RelatedText(SubSeq(data.RelatedTopics, 1,
                                           IF Len(data.RelatedTopics) < 2
                                           THEN Len(data.RelatedTopics) ELSE 2))
                   ELSE main
    IN  Strip(content)

\* lines 79-114: what _search_duckduckgo returns for a response of the service
search_duckduckgo(resp) ==
    IF resp.kind # "http" THEN <<>>             \* asyncio.TimeoutError, Exception
    ELSE IF resp.status # 200 THEN <<>>
    ELSE DdgContent(resp.data)

\* lines 147-153 (checked = TRUE) and 173-179 (checked = FALSE): the first page
\* whose extract is accepted, <<>> if there is none
RECURSIVE PickExtract(_, _)
PickExtract(pages, checked) ==
    IF pages = <<>> THEN <<>>
    ELSE LET page    == Head(pages)
             content == Strip(page.extract)
         IN  IF /\ page.id # "-1"
                /\ page.has_extract
                /\ content # <<>>
                /\ Len(content) > MinExtractLen
                /\ (checked => ~Contains(Lower(content), MayReferTo))
             THEN content
             ELSE PickExtract(Tail(pages), checked)

\* the outcome of one Wikipedia strategy: accepted content, or go on
Accept(content) == [accepted |-> TRUE,  content |-> content, retry |-> FALSE]
GoOn            == [accepted |-> FALSE, content |-> <<>>,    retry |-> FALSE]
RetryOriginal   == [accepted |-> FALSE, content |-> <<>>,    retry |-> TRUE]

\* method 1, lines 130-155
WikiExtract(resp) ==
    IF resp.kind # "http" \/ resp.status # 200 THEN GoOn
    ELSE IF PickExtract(resp.pages, TRUE) # <<>> THEN Accept(PickExtract(resp.pages, TRUE))
    ELSE GoOn

\* method 2, lines 158-181
WikiSections(resp) ==
    IF resp.kind # "http" \/ resp.status # 200 THEN GoOn
    ELSE IF PickExtract(resp.pages, FALSE) # <<>> THEN Accept(PickExtract(resp.pages, FALSE))
    ELSE GoOn

\* method 3, lines 184-198: the REST summary for clean_query
WikiSummary(resp, query) ==
    IF resp.kind # "http" THEN GoOn
    ELSE IF resp.status = 200
         THEN IF Strip(resp.extract) # <<>> /\ ~Contains(Lower(Strip(resp.extract)), MayReferTo)
              THEN Accept(Strip(resp.extract))
              ELSE GoOn
    ELSE IF resp.status = 404 /\ clean_query(query) # query THEN RetryOriginal
    ELSE GoOn

\* method 3, lines 199-208: the REST summary for the original query
WikiSummaryOriginal(resp) ==
    IF resp.kind # "http" \/ resp.status # 200 THEN GoOn
    ELSE IF Strip(resp.extract) # <<>> THEN Accept(Strip(resp.extract))
    ELSE GoOn

\* lines 36-41: an Exception returned by gather counts as empty text
Coerce(lookup) == IF lookup.raised THEN <<>> ELSE lookup.res

\* output literals
InfoIcon == "<U+2139 U+FE0F> "
BookIcon == "<U+1F4D8> "

\* line 53
NoInfoMessage(query) ==
    <<InfoIcon, "No useful information found for \"">> \o query
        \o <<"\" from either DuckDuckGo or Wikipedia.">>

\* line 56
SummaryAnswer(summary) == <<BookIcon, "Summary:", "\n">> \o summary

\* faulty variant of SourcesText, for testing C8: both blocks are always written
SourcesTextBoth(ddg_text, wiki_text) ==
    <<"Source 1 (DuckDuckGo):", "\n">> \o ddg_text \o <<"\n", "\n">>
        \o <<"Source 2 (Wikipedia):", "\n">> \o wiki_text \o <<"\n", "\n">>

\* lines 223-227
SourcesText(ddg_text, wiki_text) ==
    (IF ddg_text # <<>>
     THEN <<"Source 1 (DuckDuckGo):", "\n">> \o ddg_text \o <<"\n", "\n">> ELSE <<>>)
    \o
    (IF wiki_text # <<>>
     THEN <<"Source 2 (Wikipedia):", "\n">> \o wiki_text \o <<"\n", "\n">> ELSE <<>>)

AnyIn(words, s) == \E w \in words : Contains(s, w)

\* lines 233-240 and the join at line 246
SpecificRequests(original_query) ==
    LET q == Lower(original_query)
        a == IF AnyIn({ <<"b","o","r","n">>, <<"b","i","r","t","h">>,
                        <<"b","i","r","t","h","d","a","y">> }, q)
             THEN << "birth date" >> ELSE <<>>
        b == IF AnyIn({ <<"m","a","r","r","i","e","d">>, <<"m","a","r","r","i","a","g","e">>,
                        <<"w","i","f","e">>, <<"s","p","o","u","s","e">> }, q)
             THEN << "marriage information" >> ELSE <<>>
        c == IF AnyIn({ <<"w","h","o"," ","i","s">>, <<"a","b","o","u","t">>,
                        <<"b","i","o","g","r","a","p","h","y">> }, q)
             THEN << "general biography" >> ELSE <<>>
        all == a \o b \o c
    IN  IF all = <<>> THEN << "general information" >>
        ELSE IF Len(all) = 1 THEN all
        ELSE IF Len(all) = 2 THEN << all[1], ", ", all[2] >>
        ELSE << all[1], ", ", all[2], ", ", all[3] >>

\* lines 242-257
Prompt(ddg_text, wiki_text, original_query) ==
    << "You are answering the user's question: \"" >> \o original_query
    \o << "\"\n\nBased on the factual information provided below, answer the user's specific questions comprehensively.\n\nThe user is asking for: " >>
    \o SpecificRequests(original_query)
    \o << "\n\nIMPORTANT INSTRUCTIONS:\n- If the user asks about birth/birthday, look for and include birth date information\n- If the user asks about marriage/married, look for and include marriage/spouse information  \n- If the user asks \"who is\", provide a comprehensive biography\n- Include specific dates, names, and details when available\n- If some requested information is not available in the sources, mention that clearly\n\n" >>
    \o SourcesText(ddg_text, wiki_text)
    \o << "\n\nNow provide a complete answer to \"" >> \o original_query
    \o << "\" that addresses all parts of the user's question:" >>

\* lines 265-270
Fallback(ddg_text, wiki_text) ==
    LET d == IF ddg_text # <<>> THEN <<"DuckDuckGo: ">> \o ddg_text ELSE <<>>
        w == IF wiki_text # <<>> THEN <<"Wikipedia: ">> \o wiki_text ELSE <<>>
    IN  IF d # <<>> /\ w # <<>> THEN d \o <<"\n", "\n">> \o w
        ELSE IF d # <<>> THEN d
        ELSE IF w # <<>> THEN w
        ELSE << "<U+274C> Both search and summarization failed." >>

(***************************************************************************)
(* Inputs: what the planner may stream                                     *)
(***************************************************************************)

\* the planner streams at most this many messages before the message with the
\* body, and at most this many after it
MaxPad == 1

Quote(s) == <<"\"">> \o s \o <<"\"">>

unknown == <<"z","z","z">>

\* task texts of directives for the task, tool, api and planner keys
TaskTexts ==
    { <<"x">>, <<>>,
      <<"w","e","a","t","h","e","r",":"," ","T","o","k","y","o",","," ","J","a","p","a","n">>,
      <<"W","E","A","T","H","E","R",":","O","s","l","o">>,
      <<"n","e","w","s",":"," ","a","i">>,
      <<"S","t","o","c","k",":"," ","I","B","M"," ">>,
      <<"f","o","r","e","x",":"," ","u","s","d"," ">>,
      <<" ","w","e","a","t","h","e","r",":"," ","x">> }

\* task texts of directives for the search key
SearchTexts ==
    { <<"W","h","o"," ","i","s"," ","A","l","a","n"," ","T","u","r","i","n","g","?">>,
      <<"A","d","a"," ","b","i","o","g","r","a","p","h","y">>,
      <<"w","e","a","t","h","e","r",":"," ","x"," ">> }

\* JSON text of the agent field: registered keys, an unregistered key, non-strings
AgentFrags ==
    { Quote(k) : k \in AGENTS \cup {unknown} }
      \cup { <<"5">>, <<"n","u","l","l">>, <<"[","]">>, <<"{","}">> }

\* JSON text of the task field: strings and non-strings
TaskFrags ==
    { Quote(t) : t \in TaskTexts \cup SearchTexts } \cup { <<"5">>, <<"n","u","l","l">> }

AgentMember(a) == <<"\"","a","g","e","n","t","\"",":">> \o a

TaskMember(t) == <<"\"","t","a","s","k","\"",":"," ">> \o t

\* the text of a directive object with both fields
DirectiveText(a, t) == <<"{">> \o AgentMember(a) \o <<",">> \o TaskMember(t) \o <<"}">>

\* the pairs of fields the planner sends: search queries go to the search key
Directives ==
    { d \in AgentFrags \X TaskFrags :
          (d[1] = Quote(search)) = (d[2] \in { Quote(t) : t \in SearchTexts }) }

Bodies ==
    { DirectiveText(d[1], d[2]) : d \in Directives }
      \cup { <<"{">> \o AgentMember(a) \o <<"}">> : a \in AgentFrags }      \* no task
      \cup { <<"{">> \o TaskMember(t) \o <<"}">> : t \in TaskFrags }        \* no agent
      \cup { <<"{","}">>,
             <<"h","e","l","l","o">>,
             <<"{">> \o AgentMember(Quote(task)) \o <<",">> \o TaskMember(Quote(<<"x">>)),
             <<"{","a","g","e","n","t",":","t","a","s","k","}">>,
             <<"}"," ","{">>,
             DirectiveText(Quote(task), Quote(<<"a","}","{","b">>)),
             <<"{">> \o AgentMember(Quote(unknown)) \o <<",">> \o AgentMember(Quote(tool))
                 \o <<",">> \o TaskMember(Quote(<<"x">>)) \o <<"}">> }

\* the messages around the body: one without content, one with empty content,
\* some text, text with a brace
Pads == { [has |-> FALSE, content |-> <<>>],
          [has |-> TRUE,  content |-> <<>>],
          [has |-> TRUE,  content |-> <<"o","k"," ">>],
          [has |-> TRUE,  content |-> <<"{">>],
          [has |-> TRUE,  content |-> <<"}">>] }

\* the message that carries the body
BodyMsg(b) == [has |-> TRUE, content |-> b]

\* filler text of n characters
Fill(n) == [i \in 1..n |-> "a"]

LongText == <<"A","l","a","n"," ">> \o Fill(MinExtractLen)

Disambig == <<"A","l","a","n"," ","M","a","y"," ","r","e","f","e","r"," ","t","o",":"," ">>
                \o Fill(MinExtractLen)

ShortText == <<"A","l","a","n">>

NoData == [AbstractText |-> <<>>, Definition |-> <<>>, Answer |-> <<>>, RelatedTopics |-> <<>>]

Topic(text) == [is_dict |-> TRUE, Text |-> text]

\* what the instant-answer service may do
DdgResponses ==
    { [kind |-> "timeout", status |-> 0,   data |-> NoData],
      [kind |-> "error",   status |-> 0,   data |-> NoData],
      [kind |-> "http",    status |-> 500, data |-> [NoData EXCEPT !.AbstractText = <<"A","b","s">>]],
      [kind |-> "http",    status |-> 200, data |-> NoData],
      [kind |-> "http",    status |-> 200, data |-> [NoData EXCEPT !.AbstractText = <<" ","A","b","s"," ">>,
                                                                !.Definition = <<"D","e","f">>]],
      [kind |-> "http",    status |-> 200, data |-> [NoData EXCEPT !.AbstractText = <<" ">>,
                                                                !.Definition = <<"D","e","f">>]],
      [kind |-> "http",    status |-> 200,
       data |-> [NoData EXCEPT !.RelatedTopics =
                    << Topic(<<"A","b","s">>), [is_dict |-> FALSE, Text |-> <<>>],
                       Topic(<<"x">>) >>]] }

Page(id, has_extract, extract) == [id |-> id, has_extract |-> has_extract, extract |-> extract]

\* what the extract API may do (methods 1 and 2)
ExtractResponses ==
    { [kind |-> "error", status |-> 0,   pages |-> <<>>],
      [kind |-> "http",  status |-> 500, pages |-> << Page("7", TRUE, LongText) >>],
      [kind |-> "http",  status |-> 200, pages |-> <<>>],
      [kind |-> "http",  status |-> 200, pages |-> << Page("-1", FALSE, <<>>) >>],
      [kind |-> "http",  status |-> 200, pages |-> << Page("-1", TRUE, LongText) >>],
      [kind |-> "http",  status |-> 200, pages |-> << Page("7", TRUE, Fill(MinExtractLen)) >>],
      [kind |-> "http",  status |-> 200, pages |-> << Page("7", TRUE, <<" ">> \o LongText \o <<" ">>) >>],
      [kind |-> "http",  status |-> 200, pages |-> << Page("7", TRUE, Disambig) >>],
      [kind |-> "http",  status |-> 200, pages |-> << Page("7", TRUE, Disambig),
                                                      Page("8", TRUE, LongText) >>] }

\* what the REST summary endpoint may do (method 3)
SummaryResponses ==
    { [kind |-> "error", status |-> 0,   extract |-> <<>>],
      [kind |-> "http",  status |-> 500, extract |-> <<>>],
      [kind |-> "http",  status |-> 404, extract |-> <<>>],
      [kind |-> "http",  status |-> 200, extract |-> <<" ">>],
      [kind |-> "http",  status |-> 200, extract |-> <<" ">> \o ShortText],
      [kind |-> "http",  status |-> 200, extract |-> Disambig] }

\* what the summarizer may answer
Summaries == { <<" ","S","u","m"," ">> }

\* replies of the capability handlers (opaque text)
Replies == { <<>>, <<"r">> }

(***************************************************************************)
(* The HTTP endpoints (backend/api.py): pure parts                         *)
(***************************************************************************)

\* line 15, in seconds; the clock counts seconds
REQUEST_COOLDOWN == 2

\* HTTPException(status_code, detail)
HTTPException(status_code, detail) ==
    [type |-> "HTTPException", status_code |-> status_code, detail |-> detail]

\* str(e): "<status_code>: <detail>" for an HTTPException, the message otherwise
Str(e) ==
    IF e.type = "HTTPException" THEN <<ToString(e.status_code), ": ">> \o e.detail
    ELSE e.detail

\* what a handler step ends with: an exception, or the new value of
\* last_request_time
Throw(e) == [raised |-> TRUE, e |-> e, last |-> <<>>]
Pass(last) == [raised |-> FALSE, e |-> HTTPException(0, <<>>), last |-> last]

\* faulty variant of apply_rate_limit, for testing C19: the comparison is <=
\* against a cooldown that is one second short
apply_rate_limit_short(last, current_time) ==
    IF "default" \in DOMAIN last /\ current_time - last["default"] <= REQUEST_COOLDOWN - 2
    THEN Throw(HTTPException(429, <<"Rate limit exceeded. Wait ">>))
    ELSE Pass([c \in {"default"} |-> current_time])

\* lines 34-46, with client_id = "default"
apply_rate_limit(last, current_time) ==
    IF "default" \in DOMAIN last /\ current_time - last["default"] < REQUEST_COOLDOWN
    THEN Throw(HTTPException(429, <<"Rate limit exceeded. Wait ">>))
    ELSE Pass([c \in {"default"} |-> current_time])

\* lines 54-59 and 86-94: validation and rate limit, up to the orchestrator call
Admit(message, last, current_time) ==
    IF Strip(message) = <<>>
    THEN Throw(HTTPException(400, <<"Message cannot be empty">>))
    ELSE apply_rate_limit(last, current_time)

\* lines 76-80: what ask_jarvis makes of an exception raised in its try block
ask_jarvis_except(e) ==
    IF e.type = "TimeoutError"
    THEN HTTPException(408, <<"Request timeout">>)
    ELSE HTTPException(500, <<"Internal error: ">> \o Str(e))

\* lines 103-105: what ask_direct makes of an exception raised in its try block
ask_direct_except(e) == HTTPException(500, Str(e))

\* exceptions of the orchestrator: asyncio.TimeoutError, and any other
\* (process_request raises AttributeError and TypeError, lines 126-128)
TimeoutError == [type |-> "TimeoutError", status_code |-> 0, detail |-> <<>>]
OtherError == [type |-> "AttributeError", status_code |-> 0,
               detail |-> <<"'int' object has no attribute 'strip'">>]

(***************************************************************************)
(* Inputs: queries handed to _simplify_query                               *)
(***************************************************************************)

\* a query starts with at most this many interrogative phrases
MaxPhrases == 2

\* the phrases as users write them
PhraseForms ==
    { question_words[i] : i \in 1..Len(question_words) }
      \cup { <<"W","h","a","t"," ","i","s">>, <<"W","h","o"," ","I","s">> }

RECURSIVE Leads(_)
Leads(n) ==
    IF n = 0 THEN { <<>> }
    ELSE Leads(n - 1)
           \cup { p \o <<" ">> \o l : p \in PhraseForms, l \in Leads(n - 1) }

Subjects == { <<>>, <<"c","l","o","s","u","r","e">>,
              <<"A","d","a"," ","L","o","v","e","l","a","c","e">> }

Endings == { <<>>, <<"?">>, <<" ">>, <<"?","?">>, <<" ","?"," ">> }

Queries ==
    { sp \o l \o subj \o e :
          sp \in { <<>>, <<" "," ">> }, l \in Leads(MaxPhrases),
          subj \in Subjects, e \in Endings }

(***************************************************************************)
(* State                                                                   *)
(***************************************************************************)

VARIABLES
    pc,           \* where process_request is
    bodySent,     \* the planner has streamed the message with the body
    pads,         \* messages streamed so far before the body, or after it
    buffer,       \* process_request's local `buffer`
    plannerRuns,  \* number of planner_team.run_stream calls
    calls,        \* capability handler invocations, in order: [h, agent, arg]
    result,       \* the value process_request returned
    exc,          \* the exception process_request raised, "" if none
    sc,           \* the SearchAgent.search calls, by call id
    sq,           \* a call of SearchAgent._simplify_query
    clock,        \* what time.time() returns, in ticks
    last_request_time,  \* the module-level dict of backend/api.py
    http          \* the requests the API has received, in order of arrival

\* the state outside process_request and search
ext == <<sq, clock, last_request_time, http>>

vars == <<pc, bodySent, pads, buffer, plannerRuns, calls, result, exc, sc, ext>>

orch == <<pc, bodySent, pads, buffer, plannerRuns, calls, result, exc, ext>>

\* one of the two coroutines handed to asyncio.gather
NoLookup == [st |-> "none", arg |-> <<>>, res |-> <<>>, raised |-> FALSE, reqs |-> <<>>]

\* a search call that has not been made
NoCall == [pc |-> "idle", query |-> <<>>, ddg |-> NoLookup, wiki |-> NoLookup,
           order |-> <<>>, prompt |-> <<>>, asks |-> 0, summ |-> "none", ret |-> <<>>]

\* the id of the search call made by process_request
Main == 1

\* faulty variant of start_search, for testing C18: both lookups get the
\* simplified query
start_search_cleaned(query) ==
    [NoCall EXCEPT !.pc    = "gather",
                   !.query = query,
                   !.ddg   = [NoLookup EXCEPT !.st = "get", !.arg = simplify_query(query),
                                              !.reqs = <<"ddg">>],
                   !.wiki  = [NoLookup EXCEPT !.st = "session", !.arg = simplify_query(query)]]

\* lines 30-33 and 58-63: search(query) up to the await of gather; both lookups
\* are scheduled, the first with the simplified and the second with the original query
start_search(query) ==
    [NoCall EXCEPT !.pc    = "gather",
                   !.query = query,
                   !.ddg   = [NoLookup EXCEPT !.st = "get", !.arg = simplify_query(query),
                                              !.reqs = <<"ddg">>],
                   !.wiki  = [NoLookup EXCEPT !.st = "session", !.arg = query]]

\* a lookup coroutine returns text
Returned(lookup, text) == [lookup EXCEPT !.st = "done", !.res = text]

\* a lookup coroutine ends with an Exception, which gather hands back as its result
Raised(lookup) == [lookup EXCEPT !.st = "done", !.raised = TRUE]

\* faulty variant of WikiStep, for testing C16: accepted content is kept but the
\* strategies that are left still run
WikiStepAll(lookup, outcome, next, req) ==
    IF next = "done"
    THEN Returned(lookup, IF lookup.res # <<>> THEN lookup.res ELSE outcome.content)
    ELSE [lookup EXCEPT !.st = next, !.reqs = Append(@, req),
                        !.res = IF @ # <<>> THEN @ ELSE outcome.content]

\* a Wikipedia strategy has answered: return the content or issue the next request
WikiStep(lookup, outcome, next, req) ==
    IF outcome.accepted THEN Returned(lookup, outcome.content)
    ELSE IF next = "done" THEN Returned(lookup, <<>>)
    ELSE [lookup EXCEPT !.st = next, !.reqs = Append(@, req)]

\* faulty variant of after_gather, for testing C5: the message names the
\* simplified query
after_gather_cleaned(s) ==
    LET ddg_result  == Coerce(s.ddg)
        wiki_result == Coerce(s.wiki)
    IN  IF ddg_result = <<>> /\ wiki_result = <<>>
        THEN [s EXCEPT !.pc = "done", !.ret = NoInfoMessage(simplify_query(s.query))]
        ELSE [s EXCEPT !.pc = "summarize",
                       !.prompt = Prompt(ddg_result, wiki_result, s.query),
                       !.asks = @ + 1,
                       !.summ = "pending"]

\* faulty variant of after_gather, for testing C6: one empty source is enough to
\* give up
after_gather_either(s) ==
    LET ddg_result  == Coerce(s.ddg)
        wiki_result == Coerce(s.wiki)
    IN  IF ddg_result = <<>> \/ wiki_result = <<>>
        THEN [s EXCEPT !.pc = "done", !.ret = NoInfoMessage(s.query)]
        ELSE [s EXCEPT !.pc = "summarize",
                       !.prompt = Prompt(ddg_result, wiki_result, s.query),
                       !.asks = @ + 1,
                       !.summ = "pending"]

\* faulty variant of after_gather, for testing C13: the instant answer is kept
\* in an attribute of the agent, so a call reads the one of the latest caller
after_gather_shared(s) ==
    LET latest      == CHOOSE c \in DOMAIN sc :
                           /\ sc[c].ddg.st = "done"
                           /\ \A d \in DOMAIN sc : sc[d].ddg.st = "done" => d <= c
        ddg_result  == Coerce(sc[latest].ddg)
        wiki_result == Coerce(s.wiki)
    IN  IF ddg_result = <<>> /\ wiki_result = <<>>
        THEN [s EXCEPT !.pc = "done", !.ret = NoInfoMessage(s.query)]
        ELSE [s EXCEPT !.pc = "summarize",
                       !.prompt = Prompt(ddg_result, wiki_result, s.query),
                       !.asks = @ + 1,
                       !.summ = "pending"]

\* lines 36-56 and 223-260: from the results of gather to the return, or to the
\* await of the summarizer
after_gather(s) ==
    LET ddg_result  == Coerce(s.ddg)
        wiki_result == Coerce(s.wiki)
    IN  IF ddg_result = <<>> /\ wiki_result = <<>>
        THEN [s EXCEPT !.pc = "done", !.ret = NoInfoMessage(s.query)]
        ELSE IF Strip(SourcesText(ddg_result, wiki_result)) = <<>>
        THEN [s EXCEPT !.pc = "done",
                       !.ret = SummaryAnswer(<<"No information available from search sources.">>)]
        ELSE [s EXCEPT !.pc = "summarize",
                       !.prompt = Prompt(ddg_result, wiki_result, s.query),
                       !.asks = @ + 1,
                       !.summ = "pending"]

\* lines 261 and 56
summarized(s, response) ==
    [s EXCEPT !.pc = "done", !.summ = "ok", !.ret = SummaryAnswer(Strip(response))]

\* faulty variant of summarizer_failed, for testing C7: an error message is returned
summarizer_failed_error(s) ==
    [s EXCEPT !.pc = "done", !.summ = "raised",
              !.ret = SummaryAnswer(<<"LLM summarization failed.">>)]

\* faulty variant of summarizer_failed, for testing C17: the fallback text is
\* returned as it is
summarizer_failed_bare(s) ==
    [s EXCEPT !.pc = "done", !.summ = "raised",
              !.ret = Fallback(Coerce(s.ddg), Coerce(s.wiki))]

\* faulty variant of summarizer_failed, for testing C14: no except clause, the
\* exception of the summarizer leaves search
summarizer_failed_raises(s) == [s EXCEPT !.pc = "raised", !.summ = "raised"]

\* lines 262-270 and 56
summarizer_failed(s) ==
    [s EXCEPT !.pc = "done", !.summ = "raised",
              !.ret = SummaryAnswer(Fallback(Coerce(s.ddg), Coerce(s.wiki)))]

\* no call of _simplify_query
NoSimplify == [pc |-> "idle", query |-> <<>>, ret |-> <<>>, again |-> <<>>]

\* the API has served nothing
ApiIdle ==
    /\ clock = 0
    /\ last_request_time = <<>>
    /\ http = <<>>

Init ==
    /\ pc = "Idle"
    /\ bodySent = FALSE
    /\ pads = 0
    /\ buffer = <<>>
    /\ plannerRuns = 0
    /\ calls = <<>>
    /\ result = <<>>
    /\ exc = ""
    /\ sc = [c \in {Main} |-> NoCall]
    /\ sq = NoSimplify
    /\ ApiIdle

(***************************************************************************)
(* process_request                                                         *)
(***************************************************************************)

\* lines 109-111: process_request is called and starts the planner stream
ProcessRequest ==
    /\ pc = "Idle"
    /\ buffer' = <<>>
    /\ plannerRuns' = plannerRuns + 1
    /\ pc' = "AwaitingPlan"
    /\ UNCHANGED <<bodySent, pads, calls, result, exc, sc, ext>>

\* lines 111-113: the stream delivers a message around the body
PlannerPad ==
    /\ pc = "AwaitingPlan"
    /\ pads < MaxPad
    /\ \E msg \in Pads : buffer' = Accumulate(buffer, msg)
    /\ pads' = pads + 1
    /\ UNCHANGED <<pc, bodySent, plannerRuns, calls, result, exc, sc, ext>>

\* lines 111-113: the stream delivers the message with the body
PlannerBody ==
    /\ pc = "AwaitingPlan"
    /\ ~bodySent
    /\ \E b \in Bodies : buffer' = Accumulate(buffer, BodyMsg(b))
    /\ bodySent' = TRUE
    /\ pads' = 0
    /\ UNCHANGED <<pc, plannerRuns, calls, result, exc, sc, ext>>

\* the stream is exhausted
PlannerEnd ==
    /\ pc = "AwaitingPlan"
    /\ pc' = "Parsing"
    /\ bodySent' = FALSE
    /\ pads' = 0
    /\ UNCHANGED <<buffer, plannerRuns, calls, result, exc, sc, ext>>

\* lines 116-149: a handler is invoked and awaited
ParseRouted ==
    /\ pc = "Parsing"
    /\ Dispatch(buffer).kind = "call"
    /\ calls' = Append(calls, [h     |-> Dispatch(buffer).h,
                               agent |-> Dispatch(buffer).agent,
                               arg   |-> Dispatch(buffer).text])
    /\ sc' = IF Dispatch(buffer).h = "search"
             THEN [sc EXCEPT ![Main] = start_search(Dispatch(buffer).text)]
             ELSE sc
    /\ pc' = "Routed"
    /\ UNCHANGED <<bodySent, pads, buffer, plannerRuns, result, exc, ext>>

\* lines 116-156: no valid delegation
ParseFallback ==
    /\ pc = "Parsing"
    /\ Dispatch(buffer).kind = "return"
    /\ pc' = "Fallback"
    /\ UNCHANGED <<bodySent, pads, buffer, plannerRuns, calls, result, exc, sc, ext>>

\* lines 124-128: an exception other than json.JSONDecodeError leaves process_request
ParseRaise ==
    /\ pc = "Parsing"
    /\ Dispatch(buffer).kind = "raise"
    /\ exc' = Dispatch(buffer).exc
    /\ pc' = "Raised"
    /\ UNCHANGED <<bodySent, pads, buffer, plannerRuns, calls, result, sc, ext>>

\* line 156
ReturnBuffer ==
    /\ pc = "Fallback"
    /\ result' = Dispatch(buffer).text
    /\ pc' = "Completed"
    /\ UNCHANGED <<bodySent, pads, buffer, plannerRuns, calls, exc, sc, ext>>

\* lines 136, 139, 142: the structured lookup returns its text
LookupReturn ==
    /\ pc = "Routed"
    /\ calls[Len(calls)].h \in {"get_weather", "get_news", "get_stock"}
    /\ \E r \in Replies : result' = r
    /\ pc' = "Completed"
    /\ UNCHANGED <<bodySent, pads, buffer, plannerRuns, calls, exc, sc, ext>>

\* line 149 and lines 158-165: the single-turn exchange ends
AgentTaskReturn ==
    /\ pc = "Routed"
    /\ calls[Len(calls)].h = "_run_agent_task"
    /\ \E out \in Replies : result' = RunAgentResult(out)
    /\ pc' = "Completed"
    /\ UNCHANGED <<bodySent, pads, buffer, plannerRuns, calls, exc, sc, ext>>

\* line 146: search has returned
SearchReturn ==
    /\ pc = "Routed"
    /\ calls[Len(calls)].h = "search"
    /\ sc[Main].pc = "done"
    /\ result' = sc[Main].ret
    /\ pc' = "Completed"
    /\ UNCHANGED <<bodySent, pads, buffer, plannerRuns, calls, exc, sc, ext>>

(***************************************************************************)
(* SearchAgent.search, call c                                              *)
(***************************************************************************)

\* lines 79-114: _search_duckduckgo ends
DdgReturn(c) ==
    /\ sc[c].pc = "gather"
    /\ sc[c].ddg.st = "get"
    /\ \E resp \in DdgResponses :
         sc' = [sc EXCEPT ![c].ddg   = Returned(@, search_duckduckgo(resp)),
                          ![c].order = Append(@, "ddg")]
    /\ UNCHANGED orch

\* an Exception leaves _search_duckduckgo; gather(return_exceptions=True) keeps it
DdgRaise(c) ==
    /\ sc[c].pc = "gather"
    /\ sc[c].ddg.st = "get"
    /\ sc' = [sc EXCEPT ![c].ddg = Raised(@), ![c].order = Append(@, "ddg")]
    /\ UNCHANGED orch

\* line 128: the session is open, method 1 issues its request
WikiSession(c) ==
    /\ sc[c].pc = "gather"
    /\ sc[c].wiki.st = "session"
    /\ sc' = [sc EXCEPT ![c].wiki = [@ EXCEPT !.st = "m1", !.reqs = Append(@, "extract")]]
    /\ UNCHANGED orch

\* lines 214-216: the session cannot be set up
WikiSessionFail(c) ==
    /\ sc[c].pc = "gather"
    /\ sc[c].wiki.st = "session"
    /\ sc' = [sc EXCEPT ![c].wiki = Returned(@, <<>>), ![c].order = Append(@, "wiki")]
    /\ UNCHANGED orch

\* an Exception leaves _search_wikipedia; gather(return_exceptions=True) keeps it
WikiRaise(c) ==
    /\ sc[c].pc = "gather"
    /\ sc[c].wiki.st = "session"
    /\ sc' = [sc EXCEPT ![c].wiki = Raised(@), ![c].order = Append(@, "wiki")]
    /\ UNCHANGED orch

\* one Wikipedia strategy answers
WikiAnswer(c, st, outcome, next, req) ==
    /\ sc[c].pc = "gather"
    /\ sc[c].wiki.st = st
    /\ sc' = [sc EXCEPT ![c].wiki  = WikiStep(@, outcome, next, req),
                        ![c].order = IF WikiStep(sc[c].wiki, outcome, next, req).st = "done"
                                     THEN Append(@, "wiki") ELSE @]
    /\ UNCHANGED orch

\* lines 130-155
WikiExtractReturn(c) ==
    \E resp \in ExtractResponses : WikiAnswer(c, "m1", WikiExtract(resp), "m2", "sections")

\* lines 158-181
WikiSectionsReturn(c) ==
    \E resp \in ExtractResponses : WikiAnswer(c, "m2", WikiSections(resp), "m3", "summary")

\* lines 184-198 and 209-212
WikiSummaryReturn(c) ==
    \E resp \in SummaryResponses :
        LET o == WikiSummary(resp, sc[c].wiki.arg)
        IN  WikiAnswer(c, "m3", o, IF o.retry THEN "m3b" ELSE "done", "summary_original")

\* lines 199-212
WikiOriginalReturn(c) ==
    \E resp \in SummaryResponses :
        WikiAnswer(c, "m3b", WikiSummaryOriginal(resp), "done", "")

\* lines 33-55: gather has both results
Gathered(c) ==
    /\ sc[c].pc = "gather"
    /\ sc[c].ddg.st = "done"
    /\ sc[c].wiki.st = "done"
    /\ sc' = [sc EXCEPT ![c] = after_gather(@)]
    /\ UNCHANGED orch

\* lines 260-261: the summarizer answers
SummarizerReturn(c) ==
    /\ sc[c].pc = "summarize"
    /\ \E response \in Summaries : sc' = [sc EXCEPT ![c] = summarized(@, response)]
    /\ UNCHANGED orch

\* lines 262-270: the summarizer call raises
SummarizerRaise(c) ==
    /\ sc[c].pc = "summarize"
    /\ sc' = [sc EXCEPT ![c] = summarizer_failed(@)]
    /\ UNCHANGED orch

Next ==
    \/ ProcessRequest
    \/ PlannerPad
    \/ PlannerBody
    \/ PlannerEnd
    \/ ParseRouted
    \/ ParseFallback
    \/ ParseRaise
    \/ ReturnBuffer
    \/ LookupReturn
    \/ AgentTaskReturn
    \/ SearchReturn
    \/ \E c \in DOMAIN sc : DdgReturn(c)
    \/ \E c \in DOMAIN sc : DdgRaise(c)
    \/ \E c \in DOMAIN sc : WikiSession(c)
    \/ \E c \in DOMAIN sc : WikiSessionFail(c)
    \/ \E c \in DOMAIN sc : WikiRaise(c)
    \/ \E c \in DOMAIN sc : WikiExtractReturn(c)
    \/ \E c \in DOMAIN sc : WikiSectionsReturn(c)
    \/ \E c \in DOMAIN sc : WikiSummaryReturn(c)
    \/ \E c \in DOMAIN sc : WikiOriginalReturn(c)
    \/ \E c \in DOMAIN sc : Gathered(c)
    \/ \E c \in DOMAIN sc : SummarizerReturn(c)
    \/ \E c \in DOMAIN sc : SummarizerRaise(c)

Spec == Init /\ [][Next]_vars

\* a step of search call c
SearchStep(c) ==
    \/ DdgReturn(c) \/ DdgRaise(c)
    \/ WikiSession(c) \/ WikiSessionFail(c) \/ WikiRaise(c)
    \/ WikiExtractReturn(c) \/ WikiSectionsReturn(c)
    \/ WikiSummaryReturn(c) \/ WikiOriginalReturn(c)
    \/ Gathered(c)
    \/ SummarizerReturn(c) \/ SummarizerRaise(c)

(***************************************************************************)
(* search called directly: by one caller, and by two on the one            *)
(* SearchAgent of the registry                                             *)
(***************************************************************************)

\* the ids of two requests whose directives both reach line 146
Callers == {1, 2}

InitTwo ==
    /\ pc = "Idle"
    /\ bodySent = FALSE
    /\ pads = 0
    /\ buffer = <<>>
    /\ plannerRuns = 0
    /\ calls = <<>>
    /\ result = <<>>
    /\ exc = ""
    /\ sc = [c \in Callers |-> NoCall]
    /\ sq = NoSimplify
    /\ ApiIdle

\* the queries of the callers: any query, the empty one too, from a lone caller;
\* never the same one from two callers
CallerTexts(c) ==
    IF DOMAIN sc = {Main} THEN SearchTexts \cup { <<>> }
    ELSE IF c = 1 THEN SearchTexts \ { <<"A","d","a"," ","b","i","o","g","r","a","p","h","y">> }
    ELSE { <<"A","d","a"," ","b","i","o","g","r","a","p","h","y">> }

\* lines 29-33: caller c enters search
SearchCall(c) ==
    /\ sc[c].pc = "idle"
    /\ \E q \in CallerTexts(c) : sc' = [sc EXCEPT ![c] = start_search(q)]
    /\ UNCHANGED orch

NextSearch ==
    \/ \E c \in DOMAIN sc : SearchCall(c)
    \/ \E c \in DOMAIN sc : DdgReturn(c)
    \/ \E c \in DOMAIN sc : DdgRaise(c)
    \/ \E c \in DOMAIN sc : WikiSession(c)
    \/ \E c \in DOMAIN sc : WikiSessionFail(c)
    \/ \E c \in DOMAIN sc : WikiRaise(c)
    \/ \E c \in DOMAIN sc : WikiExtractReturn(c)
    \/ \E c \in DOMAIN sc : WikiSectionsReturn(c)
    \/ \E c \in DOMAIN sc : WikiSummaryReturn(c)
    \/ \E c \in DOMAIN sc : WikiOriginalReturn(c)
    \/ \E c \in DOMAIN sc : Gathered(c)
    \/ \E c \in DOMAIN sc : SummarizerReturn(c)
    \/ \E c \in DOMAIN sc : SummarizerRaise(c)

\* one caller
SpecSearch == Init /\ [][NextSearch]_vars

\* one caller, and every awaited collaborator of search has an outcome: the HTTP
\* requests end within ClientTimeout(total=10) (lines 80, 125), the summarizer
\* returns or raises, and the event loop resumes a coroutine that can go on
SpecLive == SpecSearch /\ WF_vars(\E c \in {Main} : SearchStep(c))

\* two callers
SpecTwo == InitTwo /\ [][NextSearch]_vars

(***************************************************************************)
(* The HTTP endpoints POST /ask and POST /ask-direct                       *)
(***************************************************************************)

\* the API receives at most this many requests
MaxRequests == 2

\* time.time() stays below this
MaxClock == 3

\* the payloads: a message for the default agent, one for a named agent, and a
\* blank message
Payloads ==
    { [message |-> <<"h","i"," ">>, agent |-> "auto"],
      [message |-> <<" ","h","i">>, agent |-> "task"],
      [message |-> <<" ">>,         agent |-> "auto"] }

\* a request as it arrives at time `at`
Arrived(endpoint, message, agent, at) ==
    [endpoint |-> endpoint, message |-> message, agent |-> agent, at |-> at,
     passed |-> FALSE, invoked |-> "none", arg |-> <<>>, agent_name |-> "",
     st |-> "arrived", status |-> 0, body |-> <<>>]

\* the client gets the exception e as the response
Rejected(req, e) ==
    [req EXCEPT !.st = "answered", !.status = e.status_code, !.body = e.detail]

\* the handler awaits the orchestrator
Awaiting(req, invoked, arg, agent_name) ==
    [req EXCEPT !.st = "awaiting", !.passed = TRUE, !.invoked = invoked, !.arg = arg,
                !.agent_name = agent_name]

\* lines 52-68 and 76-80: POST /ask, up to the response or to the await of the
\* orchestrator
AskJarvis ==
    /\ Len(http) < MaxRequests
    /\ \E payload \in Payloads :
          LET message == payload.message
              agent   == payload.agent
              req == Arrived("/ask", message, agent, clock)
              a   == Admit(message, last_request_time, clock)
          IN  IF a.raised
              THEN /\ http' = Append(http, Rejected(req, ask_jarvis_except(a.e)))
                   /\ UNCHANGED last_request_time
              ELSE /\ http' = Append(http,
                                     IF agent = "auto"
                                     THEN Awaiting(req, "process_request", Strip(message), "")
                                     ELSE Awaiting(req, "chat_direct", Strip(message), agent))
                   /\ last_request_time' = a.last
    /\ UNCHANGED <<pc, bodySent, pads, buffer, plannerRuns, calls, result, exc, sc, sq, clock>>

\* lines 85-96 and 103-105: POST /ask-direct, up to the response or to the await
\* of the orchestrator
AskDirect ==
    /\ Len(http) < MaxRequests
    /\ \E payload \in Payloads :
          LET message == payload.message
              agent   == payload.agent
              req == Arrived("/ask-direct", message, agent, clock)
              a   == Admit(message, last_request_time, clock)
          IN  IF a.raised
              THEN /\ http' = Append(http, Rejected(req, ask_direct_except(a.e)))
                   /\ UNCHANGED last_request_time
              ELSE /\ http' = Append(http,
                                     Awaiting(req, "chat_direct", Strip(message),
                                              IF agent = "auto" THEN "planner" ELSE agent))
                   /\ last_request_time' = a.last
    /\ UNCHANGED <<pc, bodySent, pads, buffer, plannerRuns, calls, result, exc, sc, sq, clock>>

\* lines 71-74 and 98-101: the orchestrator returns its text
OrchestratorReturn(i) ==
    /\ http[i].st = "awaiting"
    /\ http' = [http EXCEPT ![i] = [@ EXCEPT !.st = "answered", !.status = 200,
                                               !.body = <<"response">>]]
    /\ UNCHANGED <<pc, bodySent, pads, buffer, plannerRuns, calls, result, exc, sc, sq,
                   clock, last_request_time>>

\* lines 76-80 and 103-105: the orchestrator raises
OrchestratorRaise(i) ==
    /\ http[i].st = "awaiting"
    /\ \E e \in {TimeoutError, OtherError} :
          http' = [http EXCEPT ![i] = Rejected(@, IF @.endpoint = "/ask"
                                                   THEN ask_jarvis_except(e)
                                                   ELSE ask_direct_except(e))]
    /\ UNCHANGED <<pc, bodySent, pads, buffer, plannerRuns, calls, result, exc, sc, sq,
                   clock, last_request_time>>

\* time passes
Tick ==
    /\ clock < MaxClock
    /\ clock' = clock + 1
    /\ UNCHANGED <<pc, bodySent, pads, buffer, plannerRuns, calls, result, exc, sc, sq,
                   last_request_time, http>>

\* the system clock is set back: time.time() is not monotonic
SetBack ==
    /\ clock > 0
    /\ clock' = clock - 1
    /\ UNCHANGED <<pc, bodySent, pads, buffer, plannerRuns, calls, result, exc, sc, sq,
                   last_request_time, http>>

NextApi ==
    \/ AskJarvis
    \/ AskDirect
    \/ \E i \in DOMAIN http : OrchestratorReturn(i)
    \/ \E i \in DOMAIN http : OrchestratorRaise(i)
    \/ Tick
    \/ SetBack

SpecApi == Init /\ [][NextApi]_vars

(***************************************************************************)
(* _simplify_query on its own                                              *)
(***************************************************************************)

\* _simplify_query(query) is called
InitSimplify ==
    /\ pc = "Idle"
    /\ bodySent = FALSE
    /\ pads = 0
    /\ buffer = <<>>
    /\ plannerRuns = 0
    /\ calls = <<>>
    /\ result = <<>>
    /\ exc = ""
    /\ sc = [c \in {Main} |-> NoCall]
    /\ sq \in { [NoSimplify EXCEPT !.pc = "called", !.query = q] : q \in Queries }
    /\ ApiIdle

\* lines 272-289
SimplifyReturn ==
    /\ sq.pc = "called"
    /\ sq' = [sq EXCEPT !.pc = "done", !.ret = simplify_query(sq.query)]
    /\ UNCHANGED <<pc, bodySent, pads, buffer, plannerRuns, calls, result, exc, sc,
                   clock, last_request_time, http>>

\* lines 272-289: _simplify_query is called with the text it returned
SimplifyAgain ==
    /\ sq.pc = "done"
    /\ sq' = [sq EXCEPT !.pc = "again", !.again = simplify_query(sq.ret)]
    /\ UNCHANGED <<pc, bodySent, pads, buffer, plannerRuns, calls, result, exc, sc,
                   clock, last_request_time, http>>

NextSimplify ==
    \/ SimplifyReturn
    \/ SimplifyAgain

SpecSimplify == InitSimplify /\ [][NextSimplify]_vars

(***************************************************************************)
(* Properties                                                              *)
(***************************************************************************)

\* process_request is past the parsing of the buffer
Parsed == pc \in {"Routed", "Fallback", "Raised", "Completed"}

\* some "{" is followed later by a "}"
HasBracePair(buf) ==
    \E i \in 1..Len(buf) : buf[i] = "{" /\ \E j \in (i + 1)..Len(buf) : buf[j] = "}"

Plain(s) == \A i \in 1..Len(s) : s[i] \notin {"{", "}"}

\* the buffer is the non-empty text d with brace-free text before and after it
Carries(buf, d) ==
    \E i \in 0..(Len(buf) - Len(d)) :
        /\ buf[i + 1] = d[1]
        /\ SubSeq(buf, i + 1, i + Len(d)) = d
        /\ Plain(SubSeq(buf, 1, i))
        /\ Plain(SubSeq(buf, i + Len(d) + 1, Len(buf)))

\* the buffer came back unchanged and nothing else happened
FellBack ==
    /\ pc \in {"Fallback", "Completed"}
    /\ calls = <<>>
    /\ exc = ""
    /\ pc = "Completed" => result = buffer

\* C1: a buffer with no "{" followed later by a "}" is returned exactly as
\* accumulated, and no capability handler is invoked.
C1_NoBracePairFallsBack == (Parsed /\ ~HasBracePair(buffer)) => FellBack

C1_Witness ==
    /\ pc = "Completed"
    /\ ~HasBracePair(buffer)
    /\ \E i \in 1..Len(buffer) : buffer[i] = "}"
    /\ \E i \in 1..Len(buffer) : buffer[i] = "{"
    /\ result = buffer

\* C2: whatever the buffer holds, process_request routes or returns the buffer;
\* it never raises because of the buffer's content.
C2_NeverRaises == pc # "Raised" /\ exc = ""

\* C3: a buffer containing a directive {"agent": k, "task": t} with an
\* unregistered key k is returned unchanged and no handler is invoked.
C3_UnknownAgentFallsBack ==
    \A t \in TaskTexts :
        (Parsed /\ Contains(buffer, DirectiveText(Quote(unknown), Quote(t)))) => FellBack

C3_Witness ==
    /\ pc = "Completed"
    /\ buffer = DirectiveText(Quote(unknown), Quote(<<"x">>))
    /\ result = buffer
    /\ calls = <<>>

\* invocations of the planner: the planning step and any delegation to it
PlannerInvocations ==
    plannerRuns + Cardinality({ i \in 1..Len(calls) : calls[i].agent = planner })

\* C4: every invoked handler belongs to a registered key other than the
\* planner's; a directive naming the planner yields the buffer unchanged and the
\* planner is not invoked a second time.
C4_NoSelfDelegation ==
    /\ \A i \in 1..Len(calls) : calls[i].agent \in AGENTS \ {planner}
    /\ \A t \in TaskTexts :
           (Parsed /\ Contains(buffer, DirectiveText(Quote(planner), Quote(t))))
               => (FellBack /\ PlannerInvocations = 1)
    /\ (Parsed /\ Contains(buffer, <<"{">> \o AgentMember(Quote(planner)) \o <<"}">>))
           => (FellBack /\ PlannerInvocations = 1)

C4_Witness ==
    /\ pc = "Completed"
    /\ Carries(buffer, DirectiveText(Quote(planner), Quote(<<"x">>)))
    /\ buffer # DirectiveText(Quote(planner), Quote(<<"x">>))
    /\ result = buffer
    /\ plannerRuns = 1

\* the text a lookup contributes: nothing if it ended with an exception
Used(lookup) == IF lookup.raised THEN <<>> ELSE lookup.res

HasElem(s, e) == \E i \in 1..Len(s) : s[i] = e

\* the no-information message as the specification words it
ClaimedNoInfo(query) ==
    <<"No useful information found for \"">> \o query
        \o <<"\" from either DuckDuckGo or Wikipedia.">>

\* C5 as stated: with both lookups empty, search returns exactly the message
\* 'No useful information found for "<query>" from either DuckDuckGo or
\* Wikipedia.' and never invokes the summarizer.
C5_AsStated ==
    \A c \in DOMAIN sc :
        (sc[c].pc = "done" /\ Used(sc[c].ddg) = <<>> /\ Used(sc[c].wiki) = <<>>)
            => (sc[c].ret = ClaimedNoInfo(sc[c].query) /\ sc[c].asks = 0)

\* C5 amended: with both lookups empty, search returns the information icon
\* followed by that message, built from the original query, and never invokes
\* the summarizer.
C5_NoInfoMessage ==
    \A c \in DOMAIN sc :
        (sc[c].pc = "done" /\ Used(sc[c].ddg) = <<>> /\ Used(sc[c].wiki) = <<>>)
            => /\ sc[c].ret = <<InfoIcon>> \o ClaimedNoInfo(sc[c].query)
               /\ sc[c].asks = 0
               /\ sc[c].summ = "none"

C5_Witness ==
    /\ sc[Main].pc = "done"
    /\ sc[Main].query = <<"W","h","o"," ","i","s"," ","A","l","a","n"," ","T","u","r","i","n","g","?">>
    /\ sc[Main].ddg.raised
    /\ sc[Main].wiki.st = "done" /\ ~sc[Main].wiki.raised /\ sc[Main].wiki.res = <<>>
    /\ Len(sc[Main].wiki.reqs) = 3
    /\ sc[Main].asks = 0
    /\ pc = "Completed" /\ result = sc[Main].ret

Src1 == <<"Source 1 (DuckDuckGo):", "\n">>
Src2 == <<"Source 2 (Wikipedia):", "\n">>

\* the prompt holds the labeled block of each non-empty source and no other
BlocksMatch(s) ==
    /\ Used(s.ddg) # <<>>  => Contains(s.prompt, Src1 \o Used(s.ddg) \o <<"\n", "\n">>)
    /\ Used(s.ddg) = <<>>  => ~HasElem(s.prompt, Src1[1])
    /\ Used(s.wiki) # <<>> => Contains(s.prompt, Src2 \o Used(s.wiki) \o <<"\n", "\n">>)
    /\ Used(s.wiki) = <<>> => ~HasElem(s.prompt, Src2[1])

\* both lookups are started with the call; search goes on only when both have
\* ended; a non-empty text of either is used whatever the other did
Isolated(s) ==
    /\ s.pc # "idle" => (s.ddg.st # "none" /\ s.wiki.st # "none")
    /\ s.pc \in {"summarize", "done"} => (s.ddg.st = "done" /\ s.wiki.st = "done")
    /\ (s.pc \in {"summarize", "done"} /\ (Used(s.ddg) # <<>> \/ Used(s.wiki) # <<>>))
           => (s.asks = 1 /\ BlocksMatch(s))

\* a step of one lookup leaves the other lookup as it was, and a lookup that has
\* ended keeps its result
Independent(c) ==
    (sc[c].pc # "idle" /\ sc'[c].pc # "idle") =>
        /\ sc'[c].ddg # sc[c].ddg => sc'[c].wiki = sc[c].wiki
        /\ sc[c].ddg.st = "done" => sc'[c].ddg = sc[c].ddg
        /\ sc[c].wiki.st = "done" => sc'[c].wiki = sc[c].wiki

\* C6: failure isolation. The two lookups are started together, each one's
\* contribution depends only on its own call, a failing lookup contributes empty
\* text and neither cancels nor skips the other, in every order of completion.
C6_FailureIsolation ==
    [][\A c \in DOMAIN sc : Isolated(sc'[c]) /\ Independent(c)]_vars

C6_Witness ==
    /\ sc[Main].pc = "done"
    /\ sc[Main].order = <<"ddg", "wiki">>
    /\ sc[Main].ddg.raised
    /\ sc[Main].wiki.res = LongText
    /\ Len(sc[Main].wiki.reqs) = 2
    /\ Contains(sc[Main].prompt, Src2 \o LongText)

\* the raw labeled concatenation of the non-empty source texts
RawLabeled(d, w) ==
    IF d # <<>> /\ w # <<>>
    THEN <<"DuckDuckGo: ">> \o d \o <<"\n", "\n", "Wikipedia: ">> \o w
    ELSE IF d # <<>> THEN <<"DuckDuckGo: ">> \o d
    ELSE <<"Wikipedia: ">> \o w

\* C7 as stated: when the summarizer raises and some source text is non-empty,
\* the text returned by search equals the raw labeled concatenation.
C7_AsStated ==
    \A c \in DOMAIN sc :
        (sc[c].pc = "done" /\ sc[c].summ = "raised")
            => sc[c].ret = RawLabeled(Used(sc[c].ddg), Used(sc[c].wiki))

\* C7 amended: when the summarizer raises and some source text is non-empty,
\* search returns the "Summary:" marker line followed by the raw labeled
\* concatenation of the non-empty source texts.
C7_SummarizerFailureFallback ==
    \A c \in DOMAIN sc :
        (sc[c].pc = "done" /\ sc[c].summ = "raised")
            => /\ Used(sc[c].ddg) # <<>> \/ Used(sc[c].wiki) # <<>>
               /\ sc[c].ret = <<BookIcon, "Summary:", "\n">>
                                 \o RawLabeled(Used(sc[c].ddg), Used(sc[c].wiki))

C7_Witness ==
    /\ sc[Main].pc = "done"
    /\ sc[Main].summ = "raised"
    /\ sc[Main].ddg.res = <<"A","b","s">>
    /\ sc[Main].wiki.res = ShortText
    /\ sc[Main].ret = <<BookIcon, "Summary:", "\n", "DuckDuckGo: ", "A","b","s",
                         "\n", "\n", "Wikipedia: ", "A","l","a","n">>

ExactlyOne(s) == (Used(s.ddg) = <<>>) # (Used(s.wiki) = <<>>)

\* C8: when exactly one source text is non-empty, the prompt passed to the
\* summarizer holds the labeled block of that source and no labeled block of
\* the other.
C8_OnlyNonEmptySourceInPrompt ==
    \A c \in DOMAIN sc :
        (sc[c].pc \in {"summarize", "done"} /\ ExactlyOne(sc[c]))
            => /\ sc[c].asks = 1
               /\ IF Used(sc[c].ddg) # <<>>
                  THEN /\ Contains(sc[c].prompt, Src1 \o Used(sc[c].ddg) \o <<"\n", "\n">>)
                       /\ ~HasElem(sc[c].prompt, Src2[1])
                  ELSE /\ Contains(sc[c].prompt, Src2 \o Used(sc[c].wiki) \o <<"\n", "\n">>)
                       /\ ~HasElem(sc[c].prompt, Src1[1])

C8_Witness ==
    /\ sc[Main].pc = "summarize"
    /\ sc[Main].ddg.res = <<"D","e","f">>
    /\ Used(sc[Main].wiki) = <<>>
    /\ HasElem(sc[Main].prompt, Src1[1])
    /\ ~HasElem(sc[Main].prompt, Src2[1])

\* the structured lookups of the data-lookup agent, by task prefix
Lookups ==
    { [p |-> <<"w","e","a","t","h","e","r",":">>, h |-> "get_weather"],
      [p |-> <<"n","e","w","s",":">>,             h |-> "get_news"],
      [p |-> <<"s","t","o","c","k",":">>,         h |-> "get_stock"] }

\* process_request made exactly this one handler call
OnlyCall(h, agent, arg) ==
    /\ pc \in {"Routed", "Completed"}
    /\ exc = ""
    /\ calls = << [h |-> h, agent |-> agent, arg |-> arg] >>

\* C9: an api directive whose task starts, case-insensitively, with weather:,
\* news: or stock: invokes exactly the matching lookup, with the task text after
\* the first colon, trimmed, in its original letter case.
C9_ApiPrefixRouting ==
    \A t \in TaskTexts : \A l \in Lookups :
        (Parsed /\ StartsWith(Lower(t), l.p)
                /\ Carries(buffer, DirectiveText(Quote(api), Quote(t))))
            => OnlyCall(l.h, api, Strip(AfterFirst(t, ":")))

C9_Witness ==
    /\ pc = "Completed"
    /\ Carries(buffer, DirectiveText(Quote(api),
           Quote(<<"w","e","a","t","h","e","r",":"," ","T","o","k","y","o",","," ","J","a","p","a","n">>)))
    /\ calls = << [h |-> "get_weather", agent |-> api,
                   arg |-> <<"T","o","k","y","o",","," ","J","a","p","a","n">>] >>

NoPrefix(t) == \A l \in Lookups : ~StartsWith(Lower(t), l.p)

\* C10 as stated: an api directive whose task starts with none of the prefixes
\* does not fail, calls none of the structured lookups and forwards the full task
\* text to the data-lookup agent as a single-turn query, whose result it returns.
C10_AsStated ==
    \A t \in TaskTexts :
        (Parsed /\ NoPrefix(t) /\ Carries(buffer, DirectiveText(Quote(api), Quote(t))))
            => /\ OnlyCall("_run_agent_task", api, t)
               /\ pc = "Completed" => result \in { RunAgentResult(r) : r \in Replies }

\* C10 amended: an api directive whose task, trimmed of surrounding whitespace,
\* starts with none of the prefixes does not fail, calls none of the structured
\* lookups and forwards the trimmed task text to the data-lookup agent as a
\* single-turn query, whose result ("No response" if it is empty) it returns.
C10_ApiGeneralQuery ==
    \A t \in TaskTexts :
        (Parsed /\ NoPrefix(Strip(t)) /\ Carries(buffer, DirectiveText(Quote(api), Quote(t))))
            => /\ OnlyCall("_run_agent_task", api, Strip(t))
               /\ pc = "Completed" =>
                      result \in { IF r = <<>> THEN <<"N","o"," ","r","e","s","p","o","n","s","e">>
                                   ELSE r : r \in Replies }

C10_Witness ==
    /\ pc = "Completed"
    /\ Carries(buffer, DirectiveText(Quote(api), Quote(<<"f","o","r","e","x",":"," ","u","s","d"," ">>)))
    /\ calls = << [h |-> "_run_agent_task", agent |-> api,
                   arg |-> <<"f","o","r","e","x",":"," ","u","s","d">>] >>
    /\ result = <<"N","o"," ","r","e","s","p","o","n","s","e">>
\* the text after a leading phrase w, trimmed; the text itself if w does not lead
Without(t, w) == IF StartsWith(t, w) THEN Strip(SubSeq(t, Len(w) + 1, Len(t))) ELSE t

\* one trailing "?" removed, and the rest trimmed
WithoutMark(t) ==
    IF t # <<>> /\ t[Len(t)] = "?" THEN Strip(SubSeq(t, 1, Len(t) - 1)) ELSE t

\* the reference result of the specification: one leading phrase at most
Reference(q) ==
    LET t == Strip(Lower(q))
        u == IF \E i \in 1..Len(question_words) : StartsWith(t, question_words[i])
             THEN Without(t, question_words[CHOOSE i \in 1..Len(question_words) :
                                                StartsWith(t, question_words[i])])
             ELSE t
    IN  WithoutMark(u)

\* the four phrases tried one after the other, each on what the ones before left
InTurn(q) ==
    LET t0 == Strip(Lower(q))
        t1 == Without(t0, <<"w","h","a","t"," ","i","s">>)
        t2 == Without(t1, <<"w","h","o"," ","i","s">>)
        t3 == Without(t2, <<"t","e","l","l"," ","m","e"," ","a","b","o","u","t">>)
        t4 == Without(t3, <<"i","n","f","o","r","m","a","t","i","o","n"," ","a","b","o","u","t">>)
    IN  WithoutMark(t4)

WhatIsClosure == <<"W","h","a","t"," ","i","s"," ","c","l","o","s","u","r","e","?">>
WhoIsAda == <<" "," ","W","h","o"," ","I","s"," ","A","d","a"," ","L","o","v","e","l","a","c","e"," ">>

\* C11 as stated: _simplify_query(q) is q in lower case and trimmed, without the
\* one interrogative phrase it starts with (and no further phrase), then without
\* one trailing "?".
C11_AsStated == sq.pc = "done" => sq.ret = Reference(sq.query)

\* C11 amended: _simplify_query(q) is q in lower case and trimmed, from which the
\* phrases "what is", "who is", "tell me about", "information about" are removed
\* in this order, each if it leads what the earlier ones left (trimming after each
\* removal), then without one trailing "?"; the two examples of the specification
\* come out as "closure" and "ada lovelace".
C11_SimplifyInTurn ==
    sq.pc = "done" =>
        /\ sq.ret = InTurn(sq.query)
        /\ sq.query = WhatIsClosure => sq.ret = <<"c","l","o","s","u","r","e">>
        /\ sq.query = WhoIsAda => sq.ret = <<"a","d","a"," ","l","o","v","e","l","a","c","e">>

C11_Witness ==
    /\ sq.pc = "done"
    /\ sq.query = <<"W","h","a","t"," ","i","s"," ","w","h","o"," ","i","s"," ",
                    "c","l","o","s","u","r","e","?">>
    /\ sq.ret = <<"c","l","o","s","u","r","e">>
    /\ Reference(sq.query) = <<"w","h","o"," ","i","s"," ","c","l","o","s","u","r","e">>

\* the transitions of the request state machine
Transitions ==
    { <<"Idle", "AwaitingPlan">>, <<"AwaitingPlan", "Parsing">>,
      <<"Parsing", "Routed">>, <<"Parsing", "Fallback">>,
      <<"Routed", "Completed">>, <<"Fallback", "Completed">> }

\* the handlers' results: opaque replies, or what search returned
HandlerResults ==
    Replies \cup { RunAgentResult(r) : r \in Replies } \cup { sc[c].ret : c \in DOMAIN sc }

\* one planning run, and the handler calls that go with the state
OneRoute ==
    /\ pc # "Idle" => plannerRuns = 1
    /\ pc \in {"AwaitingPlan", "Parsing", "Fallback"} => calls = <<>>
    /\ pc = "Routed" => Len(calls) = 1
    /\ pc = "Completed" =>
           \/ Len(calls) = 1 /\ result \in HandlerResults
           \/ calls = <<>> /\ result = buffer

\* C12: every call of process_request follows AwaitingPlan -> Parsing ->
\* (Routed or Fallback) -> Completed, with the planning step invoked exactly once;
\* then either exactly one handler is invoked and its result returned, or no
\* handler is invoked and the buffer returned; never both, never two handlers.
C12_RequestStateMachine ==
    [][ /\ pc' # pc => <<pc, pc'>> \in Transitions
        /\ OneRoute' ]_vars

\* the part of C12 that the exception at parsing leaves standing
C12_ButForRaise ==
    [][ /\ pc' # pc => (<<pc, pc'>> \in Transitions \/ <<pc, pc'>> = <<"Parsing", "Raised">>)
        /\ pc' # "Raised" => OneRoute' ]_vars

\* the answers search gives, run alone, for the query of s, the source texts s
\* obtained and the outcome of its summarizer call
AloneAnswers(s) ==
    IF Used(s.ddg) = <<>> /\ Used(s.wiki) = <<>>
    THEN { <<InfoIcon>> \o ClaimedNoInfo(s.query) }
    ELSE IF s.summ = "raised"
    THEN { <<BookIcon, "Summary:", "\n">> \o RawLabeled(Used(s.ddg), Used(s.wiki)) }
    ELSE { <<BookIcon, "Summary:", "\n">> \o Strip(r) : r \in Summaries }

\* the prompt of s is made of its own query and its own source texts
OwnPrompt(s) ==
    /\ Contains(s.prompt, <<"You are answering the user's question: \"">> \o s.query)
    /\ BlocksMatch(s)

\* a step writes the record of one call at most, and nothing else
OneCallStep ==
    /\ \A c, d \in DOMAIN sc : (sc'[c] # sc[c] /\ d # c) => sc'[d] = sc[d]
    /\ (\E c \in DOMAIN sc : sc'[c] # sc[c] /\ sc[c].pc # "idle") => UNCHANGED orch

\* C13: two search calls for different queries, interleaved in any way at their
\* suspension points, each return the answer they return when run alone with the
\* same source and summarizer responses; a step of one call writes nothing that
\* another call, the registry or the orchestrator holds.
C13_ConcurrentCallsIndependent ==
    [][ /\ OneCallStep
        /\ \A c \in DOMAIN sc :
               /\ sc'[c].pc = "summarize" => OwnPrompt(sc'[c])
               /\ sc'[c].pc = "done" => sc'[c].ret \in AloneAnswers(sc'[c]) ]_vars

C13_Witness ==
    /\ sc[1].pc = "done" /\ sc[1].summ = "ok"
    /\ sc[1].ddg.res = <<"A","b","s">> /\ sc[1].wiki.raised
    /\ sc[2].pc = "summarize"
    /\ sc[2].ddg.res = <<"D","e","f">> /\ sc[2].wiki.res = ShortText
    /\ Len(sc[2].wiki.reqs) = 4
    /\ sc[1].order = <<"wiki", "ddg">> /\ sc[2].order = <<"ddg", "wiki">>

\* C14: for every combination of source outcomes (ok, empty, timed out, failed,
\* raised) and summarizer outcome (returns text, raises), search ends by
\* returning a string and lets no exception reach its caller.
C14_SearchAlwaysReturns ==
    /\ [](\A c \in {Main} :
             /\ sc[c].pc \in {"idle", "gather", "summarize", "done"}
             /\ sc[c].pc = "done" => Len(sc[c].ret) > 0)
    /\ \A c \in {Main} : (sc[c].pc = "gather") ~> (sc[c].pc = "done")

C14_Witness ==
    /\ sc[Main].pc = "done"
    /\ sc[Main].ddg.raised
    /\ sc[Main].wiki.res = ShortText
    /\ sc[Main].summ = "raised"
    /\ sc[Main].ret = <<BookIcon, "Summary:", "\n", "Wikipedia: ", "A","l","a","n">>

\* C15: the text returned by _search_wikipedia is empty or is content without
\* the disambiguation marker "may refer to:" (in any letter case), whichever
\* strategy produced it.
C15_NoDisambiguationContent ==
    \A c \in DOMAIN sc :
        (sc[c].wiki.st = "done" /\ ~sc[c].wiki.raised)
            => \/ sc[c].wiki.res = <<>>
               \/ ~Contains(Lower(sc[c].wiki.res), MayReferTo)

\* the part of C15 that holds: the strategies that test for the marker, the full
\* extract and the REST summary for the cleaned title, return none
C15_CheckedStrategies ==
    \A c \in DOMAIN sc :
        (sc[c].wiki.st = "done" /\ ~sc[c].wiki.raised /\ Len(sc[c].wiki.reqs) \in {1, 3})
            => \/ sc[c].wiki.res = <<>>
               \/ ~Contains(Lower(sc[c].wiki.res), MayReferTo)

\* the requests of one encyclopedia lookup in their order: the three strategies,
\* and the one retry of the REST summary with the original title
StrategyOrder == <<"extract", "sections", "summary", "summary_original">>

\* what a step may do to the encyclopedia lookup w, giving w2
InOrder(w, w2) ==
    /\ w2.reqs = SubSeq(StrategyOrder, 1, Len(w2.reqs))
    /\ w2.reqs # w.reqs =>
           /\ w2.reqs = Append(w.reqs, StrategyOrder[Len(w.reqs) + 1])
           /\ w.st # "done" /\ w2.st # "done"
           /\ w.res = <<>> /\ w2.res = <<>>
    /\ w.st = "done" => w2 = w
    /\ w2.res # <<>> => w2.st = "done"

Marker == <<BookIcon, "Summary:", "\n">>

\* C17: whenever at least one source yields non-empty text, the string returned
\* by search begins with the fixed "Summary:" marker line, when the summarizer
\* succeeds and when it fails and the raw sources are returned; the
\* no-information message never carries the marker.
C17_SummaryMarker ==
    \A c \in DOMAIN sc :
        sc[c].pc = "done" =>
            IF Used(sc[c].ddg) # <<>> \/ Used(sc[c].wiki) # <<>>
            THEN /\ sc[c].summ \in {"ok", "raised"}
                 /\ Len(sc[c].ret) > Len(Marker)
                 /\ SubSeq(sc[c].ret, 1, Len(Marker)) = Marker
            ELSE /\ sc[c].summ = "none"
                 /\ ~HasElem(sc[c].ret, BookIcon)
                 /\ ~HasElem(sc[c].ret, "Summary:")

C17_Witness ==
    /\ sc[Main].pc = "done"
    /\ sc[Main].summ = "ok"
    /\ sc[Main].ddg.res = <<"D","e","f">>
    /\ sc[Main].wiki.res = <<>> /\ Len(sc[Main].wiki.reqs) = 4
    /\ sc[Main].ret = <<BookIcon, "Summary:", "\n", "S","u","m">>

\* the two lookups of the call s were started with these arguments
StartedWith(s) ==
    /\ s.ddg.arg = InTurn(s.query)
    /\ s.wiki.arg = s.query
    /\ s.ddg.st # "none" /\ s.wiki.st # "none"
    /\ s.ddg.reqs = <<"ddg">>

\* a lookup that is under way keeps its argument and is not started again
NotRestarted(s, s2) ==
    /\ s2.query = s.query
    /\ s2.ddg.arg = s.ddg.arg /\ s2.wiki.arg = s.wiki.arg
    /\ s.ddg.st = "done" => s2.ddg.st = "done"
    /\ s.wiki.st # "session" => s2.wiki.st # "session"

\* C18: in search(query) the instant-answer lookup is issued with the normalized
\* query and the encyclopedia lookup with the original query, and each of the two
\* lookups is started exactly once per call.
C18_LookupArguments ==
    [][\A c \in DOMAIN sc :
          /\ sc'[c].pc # "idle" => StartedWith(sc'[c])
          /\ sc[c].pc # "idle" => NotRestarted(sc[c], sc'[c])]_vars

C18_Witness ==
    /\ sc[Main].pc = "gather"
    /\ sc[Main].query = <<"W","h","o"," ","i","s"," ","A","l","a","n"," ","T","u","r","i","n","g","?">>
    /\ sc[Main].ddg.arg = <<"a","l","a","n"," ","t","u","r","i","n","g">>
    /\ sc[Main].wiki.arg = sc[Main].query
    /\ sc[Main].ddg.st = "done" /\ sc[Main].wiki.st = "m3"

Apart(a, b) == IF a < b THEN b - a ELSE a - b

\* the requests that got past apply_rate_limit are the ones that reached the
\* orchestrator, and any two of them arrived REQUEST_COOLDOWN apart or more
AdmittedApart(log) ==
    /\ \A i \in DOMAIN log : log[i].passed = (log[i].invoked \in {"process_request", "chat_direct"})
    /\ \A i, j \in DOMAIN log :
           (i # j /\ log[i].passed /\ log[j].passed)
               => Apart(log[i].at, log[j].at) >= REQUEST_COOLDOWN

\* C19: across any sequence or interleaving of POST /ask and POST /ask-direct
\* requests, any two requests that get past apply_rate_limit and reach the
\* orchestrator have arrival times at least REQUEST_COOLDOWN (2 seconds) apart,
\* and a request that is rejected leaves last_request_time unchanged.
C19_RateLimit ==
    [][ /\ AdmittedApart(http')
        /\ (Len(http') > Len(http) /\ ~http'[Len(http')].passed)
               => last_request_time' = last_request_time ]_vars

C19_Witness ==
    /\ Len(http) = 2
    /\ http[1].endpoint = "/ask" /\ http[1].passed /\ http[1].st = "awaiting" /\ http[1].at = 1
    /\ http[2].endpoint = "/ask-direct" /\ http[2].passed /\ http[2].at = 3
    /\ last_request_time["default"] = 3
    /\ clock = 2

\* a request whose message is blank
Blank(req) == Strip(req.message) = <<>>

\* a request with a message that arrived less than REQUEST_COOLDOWN after a
\* request that reached the orchestrator
InCooldown(log, i) ==
    /\ ~Blank(log[i])
    /\ ~log[i].passed

\* C20: in POST /ask and POST /ask-direct a message that is empty after trimming
\* is answered with HTTP status 400 ("Message cannot be empty"), a request
\* arriving inside the cooldown with HTTP status 429 ("Rate limit exceeded"), and
\* in both cases the orchestrator is not invoked.
C20_ClientErrors ==
    \A i \in DOMAIN http :
        /\ Blank(http[i]) =>
               /\ http[i].st = "answered" /\ http[i].invoked = "none"
               /\ http[i].status = 400
               /\ http[i].body = <<"Message cannot be empty">>
        /\ InCooldown(http, i) =>
               /\ http[i].st = "answered" /\ http[i].invoked = "none"
               /\ http[i].status = 429
               /\ http[i].body[1] = "Rate limit exceeded. Wait "

\* the part of C20 that holds: neither request reaches the orchestrator; both are
\* answered with status 500, the intended status and detail inside the detail
C20_ButStatus ==
    \A i \in DOMAIN http :
        (Blank(http[i]) \/ InCooldown(http, i)) =>
            /\ http[i].st = "answered" /\ http[i].invoked = "none"
            /\ http[i].status = 500
            /\ \E k \in 1..Len(http[i].body) :
                   http[i].body[k] = (IF Blank(http[i]) THEN "400" ELSE "429")

\* the text has a leading interrogative phrase or a trailing question mark left
Strippable(t) ==
    \/ \E i \in 1..Len(question_words) : StartsWith(t, question_words[i])
    \/ (t # <<>> /\ t[Len(t)] = "?")

\* C21 as stated: _simplify_query(_simplify_query(q)) = _simplify_query(q) for
\* every query q.
C21_AsStated == sq.pc = "again" => sq.again = sq.ret

\* C21 amended: _simplify_query(_simplify_query(q)) = _simplify_query(q) exactly
\* for the queries q whose normalized form has no leading interrogative phrase and
\* no trailing question mark left; for the others a second application strips
\* further and gives a shorter text.
C21_IdempotentWhenStripped ==
    sq.pc = "again" =>
        /\ (sq.again = sq.ret) = ~Strippable(sq.ret)
        /\ Strippable(sq.ret) => Len(sq.again) < Len(sq.ret)

C21_Witness ==
    /\ sq.pc = "again"
    /\ sq.query = <<" "," ","W","h","o"," ","I","s"," ","w","h","a","t"," ","i","s"," ",
                    "A","d","a"," ","L","o","v","e","l","a","c","e"," ","?"," ">>
    /\ sq.ret = <<"w","h","a","t"," ","i","s"," ","a","d","a"," ","l","o","v","e","l","a","c","e">>
    /\ sq.again = <<"a","d","a"," ","l","o","v","e","l","a","c","e">>

====
